---------------------------- MODULE Spec2Model ----------------------------
(***************************************************************************)
(* State machine of src/src/model.rs (the SparkSDR control client's Model):*)
(* the receiver mirror with its per-digit frequency stepping, the spot     *)
(* list with the callsign cache and its background lookups, and the        *)
(* websocket connection with the commands sent over it.                    *)
(*                                                                         *)
(* Receiver.frequency is an f32 (update_receiver assigns its f32 parameter *)
(* to the field).  An f32 holding an integer is modelled as [m, e] with    *)
(* value m * 2^e, |m| < 2^24, and e = 0 or |m| >= 2^23: the IEEE-754       *)
(* binary32 numbers with an integral value.  All arithmetic rounds to      *)
(* nearest, ties to even, as f32 addition does.                            *)
(***************************************************************************)
EXTENDS Integers, Sequences, FiniteSets

VARIABLES
    wss,              \* Option<WebSocket>: 0 is None, s > 0 is Some(socket s)
    receivers,        \* Vec<Receiver>
    radios,           \* Vec<Radio>
    default_receiver, \* Option<Uuid>: 0 is None
    version,          \* Option<Version>: [some |-> FALSE] is None
    spots,            \* Vec<Spot>
    import,           \* Option<Vec<LogEntry>>: [some |-> FALSE] is None
    callsigns,        \* Vec<CallsignInfo>
    sockets,          \* the browser's WebSocket objects: readyState of each one created
    fetches,          \* the browser's fetches in flight: number per callsign requested
    msgs,             \* yew's queue of Msg values emitted through link.callback
    panicked,         \* an unwrap() hit an Err: the wasm instance trapped
    clock,            \* number of spots delivered so far (the time field of the next)
    steps,            \* number of frequency steps taken so far
    op,               \* the operation that ran last, with its arguments
    out               \* what the last operation handed to send_command, put on the wire and logged

vars == <<wss, receivers, radios, default_receiver, version, spots, import,
          callsigns, sockets, fetches, msgs, panicked, clock, steps, op, out>>

\* ------------------------------------------------------------------ bounds

MaxSteps == 2
MaxSpots == 3
MaxLimit == 2
MaxSockets == 2
MaxMsgs == 2

\* --------------------------------------------------------------- f32 values

F32Bits == 24

Min(a, b) == IF a < b THEN a ELSE b

\* The quotient and the remainder by 2^t of the magnitude M * 2^e + r
\* (M >= 0, 0 <= r < 2^e).  Hi answers 2^F32Bits for anything that large.
Hi(M, e, r, t) ==
    IF t >= e THEN M \div 2^(t - e)
    ELSE IF M >= 2^(F32Bits - (e - t)) THEN 2^F32Bits
    ELSE M * 2^(e - t) + (r \div 2^t)

Lo(M, e, r, t) ==
    IF t >= e THEN (M % 2^(t - e)) * 2^e + r
    ELSE r % 2^t

\* Round the magnitude M * 2^e + r to the nearest f32, ties to even.
F32RoundMag(M, e, r) ==
    LET t == CHOOSE u \in 0..(e + 8) :
                 /\ Hi(M, e, r, u) < 2^F32Bits
                 /\ (u = 0 \/ Hi(M, e, r, u) >= 2^(F32Bits - 1))
        h == Hi(M, e, r, t)
        l == Lo(M, e, r, t)
        up == t > 0 /\ (2 * l > 2^t \/ (2 * l = 2^t /\ h % 2 = 1))
        h1 == IF up THEN h + 1 ELSE h
    IN  IF h1 = 2^F32Bits THEN [m |-> 2^(F32Bits - 1), e |-> t + 1]
        ELSE [m |-> h1, e |-> t]

\* Round the exact value M * 2^e + r (0 <= r < 2^e, any sign of M) to f32.
F32Round(M, e, r) ==
    IF M >= 0 THEN F32RoundMag(M, e, r)
    ELSE LET mag == IF r = 0 THEN F32RoundMag(-M, e, 0)
                    ELSE F32RoundMag(-M - 1, e, 2^e - r)
         IN  [m |-> -mag.m, e |-> mag.e]

\* The f32 nearest to the integer n.
F32Of(n) == F32Round(n, 0, 0)

\* f32 addition x + s of an f32 x and an integer s that is itself an f32
\* (the literals 100000000.0 .. 1.0 and their negations are).
F32Add(x, s) == F32Round(x.m + (s \div 2^x.e), x.e, s % 2^x.e)

\* `f as i32`: the value when it fits, else saturated at the i32 limits.
I32Max == 2147483647
I32Min == -I32Max - 1

AsI32(x) ==
    IF x.e <= 7 THEN x.m * 2^x.e
    ELSE IF x.m > 0 THEN I32Max
    ELSE I32Min

\* i32::to_string: the decimal digits, '-' first for a negative number.
DigitChar == <<"0", "1", "2", "3", "4", "5", "6", "7", "8", "9">>

RECURSIVE NatToString(_)
NatToString(n) ==
    IF n < 10 THEN DigitChar[n + 1]
    ELSE NatToString(n \div 10) \o DigitChar[(n % 10) + 1]

to_string(n) ==
    IF n >= 0 THEN NatToString(n)
    ELSE IF n = I32Min THEN "-2147483648"
    ELSE "-" \o NatToString(-n)

\* ------------------------------------------------------- domain and inputs

Uuids == 1..3
Modes == {"USB", "FT8"}

Receiver(id, frequency, mode) == [id |-> id, frequency |-> frequency, mode |-> mode]

\* Frequencies (Hz) an update from the server carries.
ServerFrequencies == {F32Of(7074000)}

\* The receiver lists a getReceivers response carries: a receiver on the 20 m
\* FT8 frequency (100 MHz below it is negative); one on 2^24 Hz, the first
\* f32 whose successor is 2 Hz away, with one that a 100 MHz step takes past
\* i32::MAX.
ReceiverLists ==
    { <<>>,
      <<Receiver(1, F32Of(14074000), "USB")>>,
      <<Receiver(1, F32Of(16777216), "FT8"), Receiver(2, F32Of(2100000000), "USB")>> }

RadioLists == { <<>>, <<[id |-> 1, name |-> "Hermes", running |-> TRUE]>> }

Versions == { [host |-> "SparkSDR", host_version |-> "2.0", protocol_version |-> "1"] }

\* frequency_up and frequency_down take digit: i32; the UI passes 0..8.
Digits == -1..9

Addresses == {"ws://localhost:4649/Spark", "not a url"}

\* WebSocket::new throws SyntaxError for an address that is no ws: URL.
UrlValid(ws) == ws = "ws://localhost:4649/Spark"

\* Commands other callers hand to send_command directly.
OtherCommands == { [cmd |-> "getReceivers"], [cmd |-> "getVersion"] }

SetMode(mode, id) == [cmd |-> "SetMode", Mode |-> mode, ID |-> id]
SetFrequency(frequency, id) == [cmd |-> "SetFrequency", Frequency |-> frequency, ID |-> id]

\* What one operation produced: the commands handed to send_command, the
\* frames the socket transmitted, the console lines.
NoOut == [cmds |-> <<>>, wire |-> <<>>, log |-> <<>>, fetch |-> <<>>]

Logged(line) == [NoOut EXCEPT !.log = <<line>>]

\* ------------------------------------------------------------- connection

\* is_connected, true only once the socket held has opened.
is_connected_once_open == wss # 0 /\ sockets[wss] = "open"

\* is_connected(): self.wss is Some(_).
is_connected == wss # 0

\* send_command(cmd), as the outcome of the call: what it hands on, what
\* reaches the wire, what it logs and whether its unwrap() panics.
\* WebSocket.send throws InvalidStateError while the socket is CONNECTING,
\* transmits when OPEN, and discards the data without an error once the
\* socket is CLOSING or CLOSED.
send_command(cmd) ==
    IF wss # 0
    THEN CASE sockets[wss] = "connecting" ->
                [cmds |-> <<cmd>>, wire |-> <<>>, log |-> <<>>, panic |-> TRUE]
           [] sockets[wss] = "open" ->
                [cmds |-> <<cmd>>, wire |-> <<[socket |-> wss, frame |-> cmd]>>,
                 log |-> <<"log: sent">>, panic |-> FALSE]
           [] OTHER ->
                [cmds |-> <<cmd>>, wire |-> <<>>, log |-> <<"log: sent">>, panic |-> FALSE]
    ELSE [cmds |-> <<cmd>>, wire |-> <<>>,
          log |-> <<"error: attempted to send, but not connected">>, panic |-> FALSE]

\* The state an operation that ends in send_command(cmd) leaves in out and
\* panicked.
Sends(cmd) ==
    LET r == send_command(cmd)
    IN  /\ out' = [cmds |-> r.cmds, wire |-> r.wire, log |-> r.log, fetch |-> <<>>]
        /\ panicked' = r.panic

Silent == out' = NoOut /\ UNCHANGED panicked

\* ---------------------------------------------------------------- receivers

\* self.receivers.iter().position(|i| i.id == receiver_id): 0 is None.
receiver_position(rs, receiver_id) ==
    IF \E i \in 1..Len(rs) : rs[i].id = receiver_id
    THEN CHOOSE i \in 1..Len(rs) :
             /\ rs[i].id = receiver_id
             /\ \A j \in 1..(i - 1) : rs[j].id # receiver_id
    ELSE 0

\* The nine `if digit == k { frequency += 10^(8-k) }` lines: the amount added.
DigitStep(digit) ==
    CASE digit = 0 -> 100000000
      [] digit = 1 -> 10000000
      [] digit = 2 -> 1000000
      [] digit = 3 -> 100000
      [] digit = 4 -> 10000
      [] digit = 5 -> 1000
      [] digit = 6 -> 100
      [] digit = 7 -> 10
      [] digit = 8 -> 1
      [] OTHER -> 0

StepUp(frequency, digit) ==
    IF DigitStep(digit) # 0 THEN F32Add(frequency, DigitStep(digit)) ELSE frequency

StepDown(frequency, digit) ==
    IF DigitStep(digit) # 0 THEN F32Add(frequency, -DigitStep(digit)) ELSE frequency

\* The Frequency field of the command: (frequency as i32).to_string()
FrequencyString(frequency) == to_string(AsI32(frequency))

\* The receivers after frequency_up / frequency_down.
frequency_up_receivers(rs, receiver_id, digit) ==
    LET index == receiver_position(rs, receiver_id)
    IN  IF index # 0
        THEN [rs EXCEPT ![index].frequency = StepUp(@, digit)]
        ELSE rs

frequency_down_receivers(rs, receiver_id, digit) ==
    LET index == receiver_position(rs, receiver_id)
    IN  IF index # 0
        THEN [rs EXCEPT ![index].frequency = StepDown(@, digit)]
        ELSE rs

\* Every operation below states all variables but msgs and op, which belong
\* to whoever runs it: the event loop's update, or a caller outside it.
connVars == <<wss, sockets>>
storeVars == <<receivers, radios, default_receiver, version>>
spotVars == <<spots, callsigns, fetches, clock, import>>

set_receivers(list) ==
    /\ receivers' = list
    /\ Silent
    /\ UNCHANGED <<connVars, radios, default_receiver, version, spotVars, steps>>

set_radios(list) ==
    /\ radios' = list
    /\ Silent
    /\ UNCHANGED <<connVars, receivers, default_receiver, version, spotVars, steps>>

set_version(v) ==
    /\ version' = [some |-> TRUE, value |-> v]
    /\ Silent
    /\ UNCHANGED <<connVars, receivers, radios, default_receiver, spotVars, steps>>

set_default_receiver(receiver) ==
    /\ default_receiver' = receiver
    /\ Silent
    /\ UNCHANGED <<connVars, receivers, radios, version, spotVars, steps>>

\* change_receiver_mode, touching the receiver only when a socket is held.
change_receiver_mode_when_connected(receiver_id, mode) ==
    LET index == receiver_position(receivers, receiver_id)
    IN  /\ IF index # 0
           THEN /\ receivers' = IF wss # 0
                                THEN [receivers EXCEPT ![index].mode = mode]
                                ELSE receivers
                /\ Sends(SetMode(mode, receiver_id))
           ELSE /\ UNCHANGED receivers
                /\ Silent
        /\ UNCHANGED <<connVars, radios, default_receiver, version, spotVars, steps>>

change_receiver_mode(receiver_id, mode) ==
    LET index == receiver_position(receivers, receiver_id)
    IN  /\ IF index # 0
           THEN /\ receivers' = [receivers EXCEPT ![index].mode = mode]
                /\ Sends(SetMode(mode, receiver_id))
           ELSE /\ UNCHANGED receivers
                /\ Silent
        /\ UNCHANGED <<connVars, radios, default_receiver, version, spotVars, steps>>

\* Whether a call moves a frequency: those calls are counted and bounded.
Steps(index, digit) == index # 0 /\ DigitStep(digit) # 0

frequency_up(receiver_id, digit) ==
    LET index == receiver_position(receivers, receiver_id)
    IN  /\ Steps(index, digit) => steps < MaxSteps
        /\ steps' = IF Steps(index, digit) THEN steps + 1 ELSE steps
        /\ receivers' = frequency_up_receivers(receivers, receiver_id, digit)
        /\ IF index # 0
           THEN Sends(SetFrequency(FrequencyString(receivers'[index].frequency), receiver_id))
           ELSE Silent
        /\ UNCHANGED <<connVars, radios, default_receiver, version, spotVars>>

frequency_down(receiver_id, digit) ==
    LET index == receiver_position(receivers, receiver_id)
    IN  /\ Steps(index, digit) => steps < MaxSteps
        /\ steps' = IF Steps(index, digit) THEN steps + 1 ELSE steps
        /\ receivers' = frequency_down_receivers(receivers, receiver_id, digit)
        /\ IF index # 0
           THEN Sends(SetFrequency(FrequencyString(receivers'[index].frequency), receiver_id))
           ELSE Silent
        /\ UNCHANGED <<connVars, radios, default_receiver, version, spotVars>>

\* update_receiver, adding the receiver when the id is not there.
update_receiver_or_insert(receiver_id, mode, frequency) ==
    LET index == receiver_position(receivers, receiver_id)
    IN  /\ receivers' = IF index # 0
                        THEN [receivers EXCEPT ![index].frequency = frequency,
                                               ![index].mode = mode]
                        ELSE Append(receivers, Receiver(receiver_id, frequency, mode))
        /\ out' = NoOut
        /\ UNCHANGED <<connVars, radios, default_receiver, version, spotVars, steps, panicked>>

update_receiver(receiver_id, mode, frequency) ==
    LET index == receiver_position(receivers, receiver_id)
    IN  /\ IF index # 0
           THEN /\ receivers' = [receivers EXCEPT ![index].frequency = frequency,
                                                  ![index].mode = mode]
                /\ out' = NoOut
           ELSE /\ UNCHANGED receivers
                /\ out' = Logged("log: attempted to update a receiver that does not exist")
        /\ UNCHANGED <<connVars, radios, default_receiver, version, spotVars, steps, panicked>>

\* ------------------------------------------------- connect, disconnect, send

\* connect(ws): a new socket, CONNECTING, with the four callbacks set on it,
\* replaces whatever self.wss held; the socket it held is not closed.
connect(ws) ==
    /\ Len(sockets) < MaxSockets
    /\ out' = NoOut
    /\ IF UrlValid(ws)
       THEN /\ sockets' = Append(sockets, "connecting")
            /\ wss' = Len(sockets) + 1
            /\ UNCHANGED panicked
       ELSE /\ panicked' = TRUE
            /\ UNCHANGED <<wss, sockets>>
    /\ UNCHANGED <<storeVars, spotVars, steps>>

\* disconnect, leaving the socket in self.wss.
disconnect_keeps_socket ==
    /\ Silent
    /\ UNCHANGED <<wss, sockets, storeVars, spotVars, steps>>

disconnect ==
    /\ wss' = 0
    /\ Silent
    /\ UNCHANGED <<sockets, storeVars, spotVars, steps>>

\* send_command(cmd) called on its own.
send(cmd) ==
    /\ Sends(cmd)
    /\ UNCHANGED <<connVars, storeVars, spotVars, steps>>

\* ------------------------------------------------------ spots and callsigns

\* Callsigns heard: two United States stations, a Japanese one, and a
\* decode with no recognisable prefix.
Callsigns == {"W1AW", "K7RA", "JA1XYZ", "QRZ"}

\* Call::prefix(): None is "".
prefix(callsign) ==
    CASE callsign = "W1AW" -> "W"
      [] callsign = "K7RA" -> "K"
      [] callsign = "JA1XYZ" -> "JA"
      [] callsign = "DL1ABC" -> "DL"
      [] OTHER -> ""

\* Call::country(): Err is "".
country(callsign) ==
    CASE callsign = "W1AW" -> "UnitedStates"
      [] callsign = "K7RA" -> "UnitedStates"
      [] callsign = "JA1XYZ" -> "Japan"
      [] callsign = "DL1ABC" -> "Germany"
      [] OTHER -> ""

\* A Call: the callsign (what Call::call() returns) and the callsign info it
\* carries: 0 for a Call as decoded from a spot, 1 or 2 for the records the
\* lookup service returns.
Call(callsign, info) == [call |-> callsign, info |-> info]

Infos == 1..2

Requested(call) == [tag |-> "Requested", call |-> call]
Found(call) == [tag |-> "Found", call |-> call]
NotFound(call) == [tag |-> "NotFound", call |-> call]

\* self.callsigns.iter().position(|c| c.call().call() == callsign): 0 is None.
callsign_position(cs, callsign) ==
    IF \E i \in 1..Len(cs) : cs[i].call.call = callsign
    THEN CHOOSE i \in 1..Len(cs) :
             /\ cs[i].call.call = callsign
             /\ \A j \in 1..(i - 1) : cs[j].call.call # callsign
    ELSE 0

\* The lookup's request line.
LookupUrl(callsign) == "/out/" \o prefix(callsign) \o "/" \o callsign \o ".json"

\* Trimmed, truncating the list instead of draining its front.
Trimmed_keeps_oldest(ss, limit) ==
    IF Len(ss) > limit THEN SubSeq(ss, 1, limit) ELSE ss

\* self.spots after trim_spots(limit): drain(0..drain) takes the first
\* `drain` spots out.
Trimmed(ss, limit) ==
    IF Len(ss) > limit
    THEN LET drain == Len(ss) - limit
         IN  SubSeq(ss, drain + 1, Len(ss))
    ELSE ss

\* trim_spots, emptying the cache whenever it drops a spot.
trim_spots_clearing_cache(limit) ==
    /\ spots' = Trimmed(spots, limit)
    /\ callsigns' = IF Len(spots) > limit THEN <<>> ELSE callsigns
    /\ Silent
    /\ UNCHANGED <<connVars, storeVars, fetches, clock, import, steps>>

trim_spots(limit) ==
    /\ spots' = Trimmed(spots, limit)
    /\ Silent
    /\ UNCHANGED <<connVars, storeVars, callsigns, fetches, clock, import, steps>>

\* StoredSpot, without the look into the cache.
StoredSpot_as_it_came(cs, spot) == spot

\* The spot add_spot pushes: with the cached call when the cache has found
\* the callsign, as it came otherwise.
StoredSpot(cs, spot) ==
    LET index == callsign_position(cs, spot.call.call)
    IN  IF index # 0 /\ cs[index].tag = "Found"
        THEN [spot EXCEPT !.call = cs[index].call]
        ELSE spot

\* NeedsLookup, asking again until the callsign is found.
NeedsLookup_until_found(cs, call) ==
    /\ \A i \in 1..Len(cs) : cs[i].call.call = call.call => cs[i].tag # "Found"
    /\ prefix(call.call) # ""
    /\ country(call.call) = "UnitedStates"

\* NeedsLookup, for a callsign of any country.
NeedsLookup_any_country(cs, call) ==
    /\ callsign_position(cs, call.call) = 0
    /\ prefix(call.call) # ""

\* Whether add_spot asks the service about the call: no cache entry, a
\* prefix, and the United States for a country.
NeedsLookup(cs, call) ==
    /\ callsign_position(cs, call.call) = 0
    /\ prefix(call.call) # ""
    /\ country(call.call) = "UnitedStates"

\* add_spot, caching NotFound for a callsign it does not look up.
add_spot_caching_not_found(spot) ==
    /\ clock < MaxSpots
    /\ clock' = clock + 1
    /\ IF NeedsLookup(callsigns, spot.call)
       THEN /\ fetches' = [fetches EXCEPT ![spot.call.call] = @ + 1]
            /\ callsigns' = Append(callsigns, Requested(spot.call))
            /\ out' = [NoOut EXCEPT !.fetch = <<LookupUrl(spot.call.call)>>]
       ELSE /\ UNCHANGED fetches
            /\ callsigns' = IF callsign_position(callsigns, spot.call.call) = 0
                            THEN Append(callsigns, NotFound(spot.call))
                            ELSE callsigns
            /\ out' = NoOut
    /\ spots' = Append(spots, StoredSpot(callsigns, spot))
    /\ UNCHANGED <<connVars, storeVars, import, steps, panicked>>

add_spot(spot) ==
    /\ clock < MaxSpots
    /\ clock' = clock + 1
    /\ IF NeedsLookup(callsigns, spot.call)
       THEN /\ fetches' = [fetches EXCEPT ![spot.call.call] = @ + 1]
            /\ callsigns' = Append(callsigns, Requested(spot.call))
            /\ out' = [NoOut EXCEPT !.fetch = <<LookupUrl(spot.call.call)>>]
       ELSE /\ UNCHANGED <<fetches, callsigns>>
            /\ out' = NoOut
    /\ spots' = Append(spots, StoredSpot(callsigns, spot))
    /\ UNCHANGED <<connVars, storeVars, import, steps, panicked>>

\* WithCall, fixing up only the newest spot of the callsign.
WithCall_newest_only(ss, call) ==
    IF \E i \in 1..Len(ss) : ss[i].call.call = call.call
    THEN LET last == CHOOSE i \in 1..Len(ss) :
                         /\ ss[i].call.call = call.call
                         /\ \A j \in (i + 1)..Len(ss) : ss[j].call.call # call.call
         IN  [ss EXCEPT ![last].call = call]
    ELSE ss

\* WithCall, fixing up only the oldest spot of the callsign.
WithCall_first_only(ss, call) ==
    IF \E i \in 1..Len(ss) : ss[i].call.call = call.call
    THEN LET first == CHOOSE i \in 1..Len(ss) :
                          /\ ss[i].call.call = call.call
                          /\ \A j \in 1..(i - 1) : ss[j].call.call # call.call
         IN  [ss EXCEPT ![first].call = call]
    ELSE ss

\* self.spots after cache_callsign_info(call): every spot of the callsign
\* carries `call`.
RECURSIVE WithCall(_, _)
WithCall(ss, call) ==
    IF ss = <<>> THEN <<>>
    ELSE <<IF Head(ss).call.call = call.call
           THEN [Head(ss) EXCEPT !.call = call]
           ELSE Head(ss)>> \o WithCall(Tail(ss), call)

\* Cached, pushing the Found entry whatever the cache holds.
Cached_always_pushed(cs, call) == Append(cs, Found(call))

\* self.callsigns after cache_callsign_info(call).
Cached(cs, call) ==
    LET index == callsign_position(cs, call.call)
    IN  IF index # 0
        THEN [cs EXCEPT ![index] = Found(call)]
        ELSE Append(cs, Found(call))

\* Replacing a Requested entry drops its FetchTask, which aborts the fetch
\* if it is still in flight.
cache_callsign_info(call) ==
    LET index == callsign_position(callsigns, call.call)
    IN  /\ spots' = WithCall(spots, call)
        /\ callsigns' = Cached(callsigns, call)
        /\ fetches' = IF /\ index # 0
                         /\ callsigns[index].tag = "Requested"
                         /\ fetches[call.call] > 0
                      THEN [fetches EXCEPT ![call.call] = @ - 1]
                      ELSE fetches
        /\ Silent
        /\ UNCHANGED <<connVars, storeVars, clock, import, steps>>

\* ------------------------------------------------------- the imported log

\* Call::state(): the state a Call carries; None is "".  A Call as decoded
\* from a bare callsign carries none; the records hold Connecticut and
\* Washington.
state(call) ==
    CASE call.info = 1 -> "CT"
      [] call.info = 2 -> "WA"
      [] OTHER -> ""

\* The Display of a Call is its callsign, and Call::new(text) is the Call of
\* that callsign with nothing else known about it.
CallToString(call) == call.call
CallNew(text) == Call(text, 0)

LogEntry(call) == [call |-> call]

\* A record of an ADIF file: one LogEntry::from_adif_record accepts, or not.
GoodRecord(call) == [ok |-> TRUE, entry |-> LogEntry(call)]
BadRecord == [ok |-> FALSE]

\* The files a user loads: one that is no ADIF; an empty log; a log of a
\* Japanese contact and one in Washington with a record between them that
\* does not convert; a log of a contact in Connecticut; a log whose only
\* record does not convert.
Files ==
    { [ok |-> FALSE],
      [ok |-> TRUE, records |-> <<>>],
      [ok |-> TRUE, records |-> <<GoodRecord(Call("JA1XYZ", 0)), BadRecord,
                                  GoodRecord(Call("W1AW", 2))>>],
      [ok |-> TRUE, records |-> <<GoodRecord(Call("K7RA", 1))>>],
      [ok |-> TRUE, records |-> <<BadRecord>>] }

\* Entries, giving up at the first record that does not convert.
RECURSIVE Entries_until_failure(_)
Entries_until_failure(records) ==
    IF records = <<>> THEN <<>>
    ELSE IF Head(records).ok
         THEN <<Head(records).entry>> \o Entries_until_failure(Tail(records))
    ELSE <<>>

\* The entries of the records that convert, in order, and the console lines
\* for those that do not.
RECURSIVE Entries(_)
Entries(records) ==
    IF records = <<>> THEN <<>>
    ELSE IF Head(records).ok THEN <<Head(records).entry>> \o Entries(Tail(records))
    ELSE Entries(Tail(records))

RECURSIVE Failures(_)
Failures(records) ==
    IF records = <<>> THEN <<>>
    ELSE IF Head(records).ok THEN Failures(Tail(records))
    ELSE <<"log: failed to import record">> \o Failures(Tail(records))

Some(value) == [some |-> TRUE, value |-> value]
None == [some |-> FALSE]

load_adif_data(data) ==
    /\ IF data.ok
       THEN /\ import' = Some(Entries(data.records))
            /\ out' = [NoOut EXCEPT !.log = Failures(data.records)]
       ELSE /\ UNCHANGED import
            /\ out' = Logged("log: unable to load adif")
    /\ UNCHANGED <<connVars, storeVars, spots, callsigns, fetches, clock, steps, panicked>>

clear_adif_data ==
    /\ import' = None
    /\ Silent
    /\ UNCHANGED <<connVars, storeVars, spots, callsigns, fetches, clock, steps>>

\* The classes spot() puts on a row: whether the country is shown, the class
\* of its name and the class of the operator cell.
Row(shown, new_country, new_state) ==
    [country_shown |-> shown, new_country |-> new_country, state_class |-> new_state]

\* spot_row, with the two arms of the country test exchanged.
spot_row_arms_exchanged(imp, s) ==
    LET call == CallNew(CallToString(s.call))
    IN  IF country(call.call) # ""
        THEN IF imp.some
             THEN LET log == imp.value
                      new_country ==
                          IF \E i \in 1..Len(log) :
                                 country(log[i].call.call) = country(call.call)
                          THEN "new-country" ELSE ""
                  IN  Row(TRUE, new_country, "")
             ELSE Row(TRUE, "", "")
        ELSE Row(FALSE, "", "")

\* spot(&self, spot): the row of a spot, against the import set imp.
spot_row(imp, s) ==
    LET call == CallNew(CallToString(s.call))
    IN  IF country(call.call) # ""
        THEN IF imp.some
             THEN LET log == imp.value
                      new_country ==
                          IF \E i \in 1..Len(log) :
                                 country(log[i].call.call) = country(call.call)
                          THEN "" ELSE "new-country"
                      new_state ==
                          IF state(call) # ""
                          THEN IF \E i \in 1..Len(log) : state(log[i].call) = state(call)
                               THEN "" ELSE "new-state"
                          ELSE ""
                  IN  Row(TRUE, new_country, new_state)
             ELSE Row(TRUE, "", "")
        ELSE Row(FALSE, "", "")

\* ------------------------------------------------------------------ events

Emit(msg) == Len(msgs) < MaxMsgs /\ msgs' = Append(msgs, msg)

\* cbnot, taking only Closed for a disconnection.
cbnot_closed_only(status) ==
    IF status = "Closed" THEN [type |-> "Disconnected"] ELSE [type |-> "Connected"]

\* cbnot: WebSocketStatus -> Msg.
cbnot(status) ==
    IF status = "Opened" THEN [type |-> "Connected"] ELSE [type |-> "Disconnected"]

modelVars == <<wss, storeVars, spotVars, steps, panicked>>

\* The browser opens socket s: onopen_callback.
onopen(s) ==
    /\ sockets[s] = "connecting"
    /\ sockets' = [sockets EXCEPT ![s] = "open"]
    /\ Emit(cbnot("Opened"))
    /\ out' = Logged("log: rig control: connection opened")
    /\ UNCHANGED modelVars

\* The browser fails socket s (its readyState is CLOSED from here on, the
\* close event is still to come): onerror_callback.
onerror(s) ==
    /\ sockets[s] \in {"connecting", "open"}
    /\ sockets' = [sockets EXCEPT ![s] = "failed"]
    /\ Emit(cbnot("Error"))
    /\ out' = Logged("log: rig control: connection error")
    /\ UNCHANGED modelVars

\* Socket s closes, after a failure or by the server: onclose_callback.
onclose(s) ==
    /\ sockets[s] \in {"connecting", "open", "failed"}
    /\ sockets' = [sockets EXCEPT ![s] = "closed"]
    /\ Emit(cbnot("Closed"))
    /\ out' = Logged("log: rig control: connection closed")
    /\ UNCHANGED modelVars

\* The text frames the server sends: a getVersion response, a response of a
\* variant CommandResponse does not have, and text that is no JSON.
VersionText == "{\"cmd\":\"getVersionResponse\",\"Host\":\"SparkSDR\",\"HostVersion\":\"2.0\",\"ProtocolVersion\":\"1\"}"
Texts == {VersionText, "{\"cmd\":\"getBandsResponse\"}", "not json"}

\* What the decoding of a text frame gives: Ok(response) or the error.
OkResponse(response) == [ok |-> TRUE, response |-> response]

\* Json::from(Ok(text)) as Json<Result<CommandResponse, _>>.
Decoded(text) ==
    IF text = VersionText
    THEN OkResponse([cmd |-> "getVersionResponse",
                     version |-> [host |-> "SparkSDR", host_version |-> "2.0",
                                  protocol_version |-> "1"]])
    ELSE [ok |-> FALSE]

\* e.data() of a MessageEvent: an ArrayBuffer, a Blob, a string, or else.
Payloads ==
    {[kind |-> "text", text |-> t] : t \in Texts}
        \cup {[kind |-> "arraybuffer", bytes |-> [length |-> 2]], [kind |-> "blob"], [kind |-> "other"]}

BinaryMsg(binary) == [kind |-> "BinaryMsg", binary |-> binary]
TextMsg(text) == [kind |-> "TextMsg", text |-> text]

\* cbout, decoding whatever arrives as a command response.
cbout_all_responses(data) ==
    [type |-> "CommandResponse",
     data |-> IF data.kind = "TextMsg" THEN Decoded(data.text) ELSE [ok |-> FALSE]]

\* cbout: WebsocketMsgType -> Msg.
cbout(data) ==
    IF data.kind = "BinaryMsg" THEN [type |-> "ReceivedAudio", data |-> data.binary]
    ELSE [type |-> "CommandResponse", data |-> Decoded(data.text)]

\* onmessage, logging and dropping a text frame that does not decode.
onmessage_dropping_undecoded(s, payload) ==
    /\ sockets[s] = "open"
    /\ CASE payload.kind = "arraybuffer" ->
               Emit(cbout(BinaryMsg(payload.bytes))) /\ out' = NoOut
         [] payload.kind = "text" /\ Decoded(payload.text).ok ->
               Emit(cbout(TextMsg(payload.text))) /\ out' = NoOut
         [] OTHER ->
               /\ UNCHANGED msgs
               /\ out' = Logged("log: rig control: unexpected message from server")
    /\ UNCHANGED <<sockets, modelVars>>

\* Socket s delivers a frame: onmessage_callback.
onmessage(s, payload) ==
    /\ sockets[s] = "open"
    /\ CASE payload.kind = "arraybuffer" ->
               Emit(cbout(BinaryMsg(payload.bytes))) /\ out' = NoOut
         [] payload.kind = "blob" ->
               /\ UNCHANGED msgs
               /\ out' = Logged("log: rig control: unexpected blob message from server")
         [] payload.kind = "text" ->
               Emit(cbout(TextMsg(payload.text))) /\ out' = NoOut
         [] OTHER ->
               /\ UNCHANGED msgs
               /\ out' = Logged("log: rig control: unexpected message from server")
    /\ UNCHANGED <<sockets, modelVars>>

\* What a lookup can answer with: Ok(call) or the decoding error.
Ok(call) == [ok |-> TRUE, call |-> call]
Err == [ok |-> FALSE]

\* The service holds records of United States stations only; the record it
\* sends need not be the one asked for.
LookupData ==
    {Ok(Call(c, i)) : c \in {d \in Callsigns : country(d) = "UnitedStates"}, i \in Infos}
        \cup {Err}

\* fetch_callback, not looking at the status of the response.
fetch_callback_any_status(callsign, success, data) ==
    /\ fetches[callsign] > 0
    /\ fetches' = [fetches EXCEPT ![callsign] = @ - 1]
    /\ Emit([type |-> "CallsignInfoReady", data |-> data])
    /\ out' = NoOut
    /\ UNCHANGED <<connVars, storeVars, spots, callsigns, clock, import, steps, panicked>>

\* The lookup for `callsign` answers: the callback add_spot gave the fetch.
\* success is meta.status.is_success(); data is the body decoded as a Call
\* or the decoding error.
fetch_callback(callsign, success, data) ==
    /\ fetches[callsign] > 0
    /\ fetches' = [fetches EXCEPT ![callsign] = @ - 1]
    /\ Emit(IF success THEN [type |-> "CallsignInfoReady", data |-> data]
            ELSE [type |-> "None"])
    /\ out' = NoOut
    /\ UNCHANGED <<connVars, storeVars, spots, callsigns, clock, import, steps, panicked>>

\* A Msg update does nothing with.
Ignored ==
    /\ out' = NoOut
    /\ UNCHANGED <<connVars, storeVars, spotVars, steps, panicked>>

\* The event loop hands the oldest Msg to update, which runs the operation
\* the Msg stands for.
update ==
    /\ msgs # <<>>
    /\ msgs' = Tail(msgs)
    /\ LET msg == Head(msgs)
       IN  CASE msg.type = "Disconnected" -> disconnect
             [] msg.type = "CallsignInfoReady" /\ msg.data.ok ->
                    cache_callsign_info(msg.data.call)
             [] /\ msg.type = "CommandResponse"
                /\ msg.data.ok
                /\ msg.data.response.cmd = "getVersionResponse" ->
                    set_version(msg.data.response.version)
             [] OTHER -> Ignored

\* ---------------------------------------------------------- specifications

\* Model::new
Init ==
    /\ wss = 0
    /\ receivers = <<>>
    /\ radios = <<>>
    /\ default_receiver = 0
    /\ version = [some |-> FALSE]
    /\ spots = <<>>
    /\ import = [some |-> FALSE]
    /\ callsigns = <<>>
    /\ sockets = <<>>
    /\ fetches = [c \in Callsigns |-> 0]
    /\ msgs = <<>>
    /\ panicked = FALSE
    /\ clock = 0
    /\ steps = 0
    /\ op = [name |-> "new"]
    /\ out = NoOut

\* The next spot the server reports: a Call as decoded, stamped in order.
NextSpot(callsign) == [call |-> Call(callsign, 0), time |-> clock + 1]

\* A call of an operation from outside the event queue, recorded in op.
\* Nothing runs once an unwrap() has panicked.
Calls(record) == ~panicked /\ op' = record /\ UNCHANGED msgs

\* The steps of the program, each with its inputs.
SetReceivers ==
    \E list \in ReceiverLists :
        /\ Calls([name |-> "set_receivers", receivers |-> list])
        /\ set_receivers(list)
SetRadios ==
    \E list \in RadioLists :
        /\ Calls([name |-> "set_radios", radios |-> list])
        /\ set_radios(list)
SetVersion ==
    \E v \in Versions :
        /\ Calls([name |-> "set_version", version |-> v])
        /\ set_version(v)
SetDefaultReceiver ==
    \E r \in {0} \cup Uuids :
        /\ Calls([name |-> "set_default_receiver", id |-> r])
        /\ set_default_receiver(r)
ModeChanged ==
    \E id \in Uuids, mode \in Modes :
        /\ Calls([name |-> "change_receiver_mode", id |-> id, mode |-> mode])
        /\ change_receiver_mode(id, mode)
UpdateReceiver ==
    \E id \in Uuids, mode \in Modes, frequency \in ServerFrequencies :
        /\ Calls([name |-> "update_receiver", id |-> id, mode |-> mode,
                  frequency |-> frequency])
        /\ update_receiver(id, mode, frequency)
Connect ==
    \E ws \in Addresses :
        /\ Calls([name |-> "connect", ws |-> ws])
        /\ connect(ws)
Disconnect ==
    /\ Calls([name |-> "disconnect"])
    /\ disconnect
SendCommand ==
    \E cmd \in OtherCommands :
        /\ Calls([name |-> "send_command", cmd |-> cmd])
        /\ send(cmd)
TrimSpots ==
    \E limit \in 0..MaxLimit :
        /\ Calls([name |-> "trim_spots", limit |-> limit])
        /\ trim_spots(limit)
AddSpot ==
    \E callsign \in Callsigns :
        /\ Calls([name |-> "add_spot", spot |-> NextSpot(callsign)])
        /\ add_spot(NextSpot(callsign))
OnOpen ==
    \E s \in 1..Len(sockets) :
        /\ ~panicked /\ op' = [name |-> "onopen", socket |-> s]
        /\ onopen(s)
OnError ==
    \E s \in 1..Len(sockets) :
        /\ ~panicked /\ op' = [name |-> "onerror", socket |-> s]
        /\ onerror(s)
OnClose ==
    \E s \in 1..Len(sockets) :
        /\ ~panicked /\ op' = [name |-> "onclose", socket |-> s]
        /\ onclose(s)
OnMessage ==
    \E s \in 1..Len(sockets), payload \in Payloads :
        /\ ~panicked /\ op' = [name |-> "onmessage", socket |-> s, payload |-> payload]
        /\ onmessage(s, payload)
FetchCallback ==
    \E callsign \in Callsigns, success \in BOOLEAN, data \in LookupData :
        /\ ~panicked
        /\ op' = [name |-> "fetch_callback", callsign |-> callsign,
                  success |-> success, data |-> data]
        /\ fetch_callback(callsign, success, data)
Update ==
    /\ ~panicked /\ msgs # <<>> /\ op' = [name |-> "update", msg |-> Head(msgs)]
    /\ update

\* Frequency stepping: the calls the receivers' digit buttons make, which
\* name a receiver on display.
Present(id) == receiver_position(receivers, id) # 0

FrequencyUp ==
    \E id \in Uuids, digit \in Digits :
        /\ Present(id)
        /\ Calls([name |-> "frequency_up", id |-> id, digit |-> digit])
        /\ frequency_up(id, digit)
FrequencyDown ==
    \E id \in Uuids, digit \in Digits :
        /\ Present(id)
        /\ Calls([name |-> "frequency_down", id |-> id, digit |-> digit])
        /\ frequency_down(id, digit)

NextFreq ==
    \/ SetReceivers
    \/ FrequencyUp
    \/ FrequencyDown

SpecFreq == Init /\ [][NextFreq]_vars

\* The state store, with every call that does not move a frequency: one that
\* names a receiver that is not there, or a digit outside 0..8.  The digits
\* tried are the two ends of 0..8 and the two numbers next to them.
StoreDigits == {-1, 0, 8, 9}

StillUp ==
    \E id \in Uuids, digit \in StoreDigits :
        /\ ~Steps(receiver_position(receivers, id), digit)
        /\ Calls([name |-> "frequency_up", id |-> id, digit |-> digit])
        /\ frequency_up(id, digit)
StillDown ==
    \E id \in Uuids, digit \in StoreDigits :
        /\ ~Steps(receiver_position(receivers, id), digit)
        /\ Calls([name |-> "frequency_down", id |-> id, digit |-> digit])
        /\ frequency_down(id, digit)
FirstSpot ==
    spots = <<>> /\ AddSpot

NextStore ==
    \/ SetReceivers
    \/ SetRadios
    \/ SetVersion
    \/ SetDefaultReceiver
    \/ ModeChanged
    \/ UpdateReceiver
    \/ StillUp
    \/ StillDown
    \/ FirstSpot

SpecStore == Init /\ [][NextStore]_vars

\* Spots, the callsign cache and its lookups.
NextSpots ==
    \/ AddSpot
    \/ TrimSpots
    \/ FetchCallback
    \/ Update

SpecSpots == Init /\ [][NextSpots]_vars

\* The connection and what is sent over it.
NextConn ==
    \/ Connect
    \/ Disconnect
    \/ SendCommand
    \/ OnOpen
    \/ OnError
    \/ OnClose
    \/ OnMessage
    \/ Update

SpecConn == Init /\ [][NextConn]_vars

\* The imported log and the rows of the spots.  The server's spots carry a
\* Call as the server has it: a bare callsign, or one with its state.
HeardCalls ==
    {Call("W1AW", 0), Call("W1AW", 1), Call("JA1XYZ", 0), Call("DL1ABC", 0), Call("QRZ", 2)}

SpotHeard ==
    \E call \in HeardCalls :
        LET heard == [call |-> call, time |-> clock + 1]
        IN  /\ Calls([name |-> "add_spot", spot |-> heard])
            /\ add_spot(heard)
LoadAdifData ==
    \E data \in Files :
        /\ Calls([name |-> "load_adif_data", data |-> data])
        /\ load_adif_data(data)
ClearAdifData ==
    /\ Calls([name |-> "clear_adif_data"])
    /\ clear_adif_data
\* view() renders a spot: the model is left as it is, the row is recorded.
RenderSpot ==
    \E i \in 1..Len(spots) :
        /\ Calls([name |-> "spot", spot |-> spots[i], row |-> spot_row(import, spots[i])])
        /\ out' = NoOut
        /\ UNCHANGED <<connVars, storeVars, spotVars, steps, panicked>>

NextLog ==
    \/ SpotHeard
    \/ LoadAdifData
    \/ ClearAdifData
    \/ RenderSpot

SpecLog == Init /\ [][NextLog]_vars

\* The receivers' modes, changed with and without a connection.
NextMode ==
    \/ SetReceivers
    \/ ModeChanged
    \/ Connect
    \/ Disconnect
    \/ OnOpen
    \/ OnClose
    \/ Update

SpecMode == Init /\ [][NextMode]_vars

\* The life of the cache entries, with everything else that goes on around
\* them: spots of the two United States stations, trims, lookup answers,
\* connects and disconnects, and loads and clears of the imported log.
StationSpot ==
    \E callsign \in {"W1AW", "K7RA"} :
        /\ Calls([name |-> "add_spot", spot |-> NextSpot(callsign)])
        /\ add_spot(NextSpot(callsign))

\* A connect to the server's address, and a load of the log of three records.
Reconnect ==
    /\ Calls([name |-> "connect", ws |-> "ws://localhost:4649/Spark"])
    /\ connect("ws://localhost:4649/Spark")
LoadLog ==
    \E data \in {f \in Files : f.ok /\ Len(f.records) = 3} :
        /\ Calls([name |-> "load_adif_data", data |-> data])
        /\ load_adif_data(data)

\* The lookup of a station answers, with a failure or with one of the records
\* of W1AW.
LookupAnswered ==
    \E callsign \in {"W1AW", "K7RA"}, success \in BOOLEAN,
       data \in {Ok(Call("W1AW", i)) : i \in Infos} \cup {Err} :
        /\ ~panicked
        /\ op' = [name |-> "fetch_callback", callsign |-> callsign,
                  success |-> success, data |-> data]
        /\ fetch_callback(callsign, success, data)

NextCache ==
    \/ StationSpot
    \/ TrimSpots
    \/ LookupAnswered
    \/ Update
    \/ Reconnect
    \/ Disconnect
    \/ LoadLog
    \/ ClearAdifData

SpecCache == Init /\ [][NextCache]_vars

\* ------------------------------------------------------------------ claims

\* Whether the cache cs holds an entry for the callsign, in one of the tags.
HasEntry(cs, callsign, tags) ==
    \E i \in 1..Len(cs) : cs[i].call.call = callsign /\ cs[i].tag \in tags

\* The spots of the callsign.
SpotsOf(callsign) == {k \in 1..Len(spots) : spots[k].call.call = callsign}

\* The step applies a successful lookup completion (cache_callsign_info).
CompletionApplied ==
    /\ op'.name = "update"
    /\ op'.msg.type = "CallsignInfoReady"
    /\ op'.msg.data.ok

\* C1: in every reachable state the callsign cache holds at most one entry
\* per callsign string.
C1_OneEntryPerCallsign ==
    \A i, j \in 1..Len(callsigns) :
        callsigns[i].call.call = callsigns[j].call.call => i = j

\* Two callsigns cached, one of them found after two of its spots arrived.
C1_Witness ==
    /\ Len(callsigns) >= 2
    /\ \E i \in 1..Len(callsigns) :
           /\ callsigns[i].tag = "Found"
           /\ Cardinality(SpotsOf(callsigns[i].call.call)) >= 2

\* C2: add_spot for a callsign whose cache entry is Requested or NotFound
\* issues no lookup, adds no cache entry and stores the spot as it came; and
\* no callsign ever has more than one lookup in flight.
C2_NoSecondLookup ==
    /\ [](\A c \in Callsigns : fetches[c] <= 1)
    /\ [][(/\ op'.name = "add_spot"
           /\ HasEntry(callsigns, op'.spot.call.call, {"Requested", "NotFound"}))
          => /\ out'.fetch = <<>>
             /\ fetches' = fetches
             /\ callsigns' = callsigns
             /\ spots' = Append(spots, op'.spot)]_vars

\* A second spot of a callsign arrived while its lookup was in flight.
C2_Witness ==
    /\ op.name = "add_spot"
    /\ out.fetch = <<>>
    /\ HasEntry(callsigns, op.spot.call.call, {"Requested"})
    /\ fetches[op.spot.call.call] = 1
    /\ Cardinality(SpotsOf(op.spot.call.call)) >= 2
    /\ spots[Len(spots)] = op.spot

\* C3: applying a successful lookup completion with `call` replaces the call
\* of every stored spot of that callsign by `call`, leaves every other spot
\* as it was, and leaves the cache with Found(call) for the callsign.
C3_RetroactiveFixUp ==
    [][CompletionApplied
       => LET call == op'.msg.data.call
          IN  /\ Len(spots') = Len(spots)
              /\ \A i \in 1..Len(spots) :
                     spots'[i] = IF spots[i].call.call = call.call
                                 THEN [spots[i] EXCEPT !.call = call]
                                 ELSE spots[i]
              /\ \E i \in 1..Len(callsigns') : callsigns'[i] = Found(call)
              /\ \A i \in 1..Len(callsigns') :
                     callsigns'[i].call.call = call.call => callsigns'[i] = Found(call)]_vars

\* A completion was applied with two spots of its callsign and a spot of
\* another callsign stored.
C3_Witness ==
    /\ op.name = "update"
    /\ op.msg.type = "CallsignInfoReady"
    /\ op.msg.data.ok
    /\ Cardinality({k \in 1..Len(spots) : spots[k].call = op.msg.data.call}) >= 2
    /\ \E k \in 1..Len(spots) : spots[k].call.call # op.msg.data.call.call
    /\ \E i \in 1..Len(callsigns) : callsigns[i] = Found(op.msg.data.call)

\* C4: add_spot for a callsign the cache holds as Found(call) stores the spot
\* with `call` for its call, in that step, and issues no lookup.
C4_EnrichedFromCache ==
    [][(/\ op'.name = "add_spot"
        /\ HasEntry(callsigns, op'.spot.call.call, {"Found"}))
       => \E i \in 1..Len(callsigns) :
              /\ callsigns[i].tag = "Found"
              /\ callsigns[i].call.call = op'.spot.call.call
              /\ spots' = Append(spots, [op'.spot EXCEPT !.call = callsigns[i].call])
              /\ out'.fetch = <<>>
              /\ fetches' = fetches
              /\ callsigns' = callsigns]_vars

\* A spot arrived for a found callsign and is stored with the found call.
C4_Witness ==
    /\ op.name = "add_spot"
    /\ HasEntry(callsigns, op.spot.call.call, {"Found"})
    /\ spots # <<>>
    /\ spots[Len(spots)].time = op.spot.time
    /\ spots[Len(spots)].call.info # 0
    /\ op.spot.call.info = 0

\* C8: trim_spots(limit) on N > limit spots leaves the last `limit` of them
\* in their order; on N <= limit spots it leaves the list as it was.
C8_TrimKeepsNewest ==
    [][op'.name = "trim_spots"
       => LET N == Len(spots)
              limit == op'.limit
          IN  IF N > limit
              THEN /\ Len(spots') = limit
                   /\ \A i \in 1..limit : spots'[i] = spots[N - limit + i]
              ELSE spots' = spots]_vars

\* Three spots arrived and a trim to two dropped the oldest.
C8_Witness ==
    /\ op.name = "trim_spots"
    /\ op.limit = 2
    /\ Len(spots) = 2
    /\ spots[1].time = 2
    /\ spots[2].time = 3

\* ------------------------------------------------- claims about frequencies

\* The step is a frequency_up or frequency_down with a digit in 0..8 on a
\* receiver that is there.
StepCalled ==
    /\ op'.name \in {"frequency_up", "frequency_down"}
    /\ op'.digit \in 0..8
    /\ \E i \in 1..Len(receivers) : receivers[i].id = op'.id

\* The place of the receiver the step names.
Stepped == CHOOSE i \in 1..Len(receivers) : receivers[i].id = op'.id

\* The amount the spec has the step add: 10^(8 - digit) Hz, up or down.
Hertz == IF op'.name = "frequency_up" THEN 10^(8 - op'.digit) ELSE -(10^(8 - op'.digit))

\* y - x = s for f32 values x, y and an integer s, in units of the smaller
\* exponent's power of two.
ExactDiff(y, x, s) ==
    LET g == Min(x.e, y.e)
    IN  /\ s % 2^g = 0
        /\ y.m * 2^(y.e - g) - x.m * 2^(x.e - g) = s \div 2^g

\* The decimal digits of a natural number, least significant first, and of
\* its double.
RECURSIVE DigitsOf(_)
DigitsOf(n) == IF n < 10 THEN <<n>> ELSE <<n % 10>> \o DigitsOf(n \div 10)

RECURSIVE Doubled(_, _)
Doubled(ds, carry) ==
    IF ds = <<>> THEN (IF carry = 0 THEN <<>> ELSE <<carry>>)
    ELSE LET v == 2 * Head(ds) + carry
         IN  <<v % 10>> \o Doubled(Tail(ds), v \div 10)

RECURSIVE TimesPowerOfTwo(_, _)
TimesPowerOfTwo(ds, e) ==
    IF e = 0 THEN ds ELSE TimesPowerOfTwo(Doubled(ds, 0), e - 1)

RECURSIVE Written(_)
Written(ds) ==
    IF Len(ds) = 1 THEN DigitChar[Head(ds) + 1]
    ELSE Written(Tail(ds)) \o DigitChar[Head(ds) + 1]

\* The integer an f32 holds, written in decimal, whatever its size.
Decimal(x) ==
    IF x.m < 0 THEN "-" \o Written(TimesPowerOfTwo(DigitsOf(-x.m), x.e))
    ELSE Written(TimesPowerOfTwo(DigitsOf(x.m), x.e))

\* C5: frequency_up(R, d) followed by frequency_down(R, d), and
\* frequency_down(R, d) followed by frequency_up(R, d), leave the receivers
\* as they were before the pair, for every receiver R there and d in 0..8.
C5_UpDownRestores ==
    [][StepCalled
       => IF op'.name = "frequency_up"
          THEN frequency_down_receivers(receivers', op'.id, op'.digit) = receivers
          ELSE frequency_up_receivers(receivers', op'.id, op'.digit) = receivers]_vars

\* C6: the Frequency string of the command a step emits is the decimal of the
\* receiver's frequency after the step, negative or beyond the i32 range alike.
C6_StringIsFrequency ==
    [][StepCalled
       => /\ out'.cmds # <<>>
          /\ out'.cmds[1].Frequency = Decimal(receivers'[Stepped].frequency)]_vars

\* C7: a step changes the receiver's frequency by exactly 10^(8 - d) Hz, up or
\* down, and emits exactly one SetFrequency command, with the receiver's id.
C7_StepIsExact ==
    [][StepCalled
       => /\ ExactDiff(receivers'[Stepped].frequency, receivers[Stepped].frequency, Hertz)
          /\ Len(out'.cmds) = 1
          /\ out'.cmds[1].cmd = "SetFrequency"
          /\ out'.cmds[1].ID = op'.id]_vars

\* ------------------------------------------------ claims about the store

\* The step calls one of the four receiver operations with an id that no
\* receiver has.
UnknownIdCalled ==
    /\ op'.name \in {"change_receiver_mode", "frequency_up", "frequency_down",
                     "update_receiver"}
    /\ \A i \in 1..Len(receivers) : receivers[i].id # op'.id

\* C9: change_receiver_mode, frequency_up, frequency_down and update_receiver
\* called with an id no receiver has leave receivers, radios, spots, the
\* default receiver, the version and the callsign cache as they were, and
\* hand no command to send_command.
C9_UnknownIdIgnored ==
    [][UnknownIdCalled
       => /\ UNCHANGED <<receivers, radios, spots, default_receiver, version, callsigns>>
          /\ out'.cmds = <<>>
          /\ out'.wire = <<>>]_vars

\* update_receiver was called with an id no receiver has, on a store with
\* something in every collection.
C9_Witness ==
    /\ op.name = "update_receiver"
    /\ \A i \in 1..Len(receivers) : receivers[i].id # op.id
    /\ out.log = <<"log: attempted to update a receiver that does not exist">>
    /\ receivers # <<>>
    /\ radios # <<>>
    /\ spots # <<>>
    /\ callsigns # <<>>
    /\ default_receiver # 0
    /\ version.some

\* --------------------------------------------- claims about the connection

NotConnected == <<"error: attempted to send, but not connected">>

C11_OneTransport ==
    \A s \in 1..Len(sockets) :
        s < Len(sockets) => sockets[s] \notin {"connecting", "open"}

\* C12: the default receiver is unset or is the id of a receiver in the
\* receivers collection.
C12_DefaultIsPresent ==
    default_receiver = 0 \/ \E i \in 1..Len(receivers) : receivers[i].id = default_receiver

\* C13: send_command never panics and never changes the state store; it
\* either transmits the frame or logs the not-connected error.
C13_NoSendIsFatal ==
    [][op'.name = "send_command"
       => /\ ~panicked'
          /\ UNCHANGED <<receivers, radios, default_receiver, version, spots, callsigns>>
          /\ (out'.wire # <<>> \/ out'.log = NotConnected)]_vars

\* C14: each lifecycle event of a socket puts exactly one Msg in the queue:
\* Connected for opened, Disconnected for error and for closed.
C14_LifecycleOneToOne ==
    [][op'.name \in {"onopen", "onerror", "onclose"}
       => msgs' = Append(msgs, [type |-> IF op'.name = "onopen" THEN "Connected"
                                         ELSE "Disconnected"])]_vars

\* A socket opened and then failed: Connected and Disconnected are queued.
C14_Witness ==
    /\ op.name = "onerror"
    /\ msgs = <<[type |-> "Connected"], [type |-> "Disconnected"]>>
    /\ sockets[op.socket] = "failed"

\* ------------------------------------------------ claims about inbound frames

\* The queue grew by one Msg of the type.
OneMore(type) ==
    /\ Len(msgs') = Len(msgs) + 1
    /\ SubSeq(msgs', 1, Len(msgs)) = msgs
    /\ msgs'[Len(msgs')].type = type

\* C15: a text frame queues exactly one CommandResponse, an array-buffer frame
\* exactly one ReceivedAudio with its bytes, and a payload of any other kind
\* queues nothing and is logged.
C15_ClassifiedByKind ==
    [][op'.name = "onmessage"
       => CASE op'.payload.kind = "text" -> OneMore("CommandResponse")
            [] op'.payload.kind = "arraybuffer" ->
                   /\ OneMore("ReceivedAudio")
                   /\ msgs'[Len(msgs')].data = op'.payload.bytes
            [] OTHER -> msgs' = msgs /\ out'.log # <<>>]_vars

\* A text frame and then a binary frame arrived.
C15_Witness ==
    /\ op.name = "onmessage"
    /\ op.payload.kind = "arraybuffer"
    /\ Len(msgs) = 2
    /\ msgs[1].type = "CommandResponse"
    /\ msgs[2].type = "ReceivedAudio"

\* The text frames that are no CommandResponse.
Undecodable == Texts \ {VersionText}

\* C16: a text frame that does not decode queues one CommandResponse carrying
\* the error; the socket stays as it is, nothing panics, the state store is
\* unchanged; and a text frame that decodes, whatever came before it on the
\* socket, queues one CommandResponse carrying the response.
C16_DecodeErrorIsLocal ==
    [][(op'.name = "onmessage" /\ op'.payload.kind = "text")
       => /\ sockets' = sockets
          /\ wss' = wss
          /\ ~panicked'
          /\ UNCHANGED <<receivers, radios, default_receiver, version, spots, callsigns>>
          /\ IF op'.payload.text \in Undecodable
             THEN msgs' = Append(msgs, [type |-> "CommandResponse", data |-> [ok |-> FALSE]])
             ELSE OneMore("CommandResponse") /\ msgs'[Len(msgs')].data.ok]_vars

\* On the only socket, a frame that does not decode was followed by one
\* that does: the error and the response are queued, the socket is open.
C16_Witness ==
    /\ op.name = "onmessage"
    /\ op.payload.kind = "text"
    /\ op.payload.text = VersionText
    /\ sockets = <<"open">>
    /\ Len(msgs) = 2
    /\ msgs[1] = [type |-> "CommandResponse", data |-> [ok |-> FALSE]]
    /\ msgs[2].type = "CommandResponse"
    /\ msgs[2].data.ok

\* ------------------------------------------------ claims about the lookups

AllTags == {"Requested", "Found", "NotFound"}

\* C17: add_spot for a callsign with no cache entry starts a lookup and
\* pushes a Requested entry exactly when the callsign has a prefix and its
\* country is the United States; otherwise it starts none and pushes none;
\* either way the spot is stored as it came.
C17_LookupOnlyForUnitedStates ==
    [][(/\ op'.name = "add_spot"
        /\ ~HasEntry(callsigns, op'.spot.call.call, AllTags))
       => LET c == op'.spot.call.call
          IN  /\ IF prefix(c) # "" /\ country(c) = "UnitedStates"
                 THEN /\ out'.fetch = <<LookupUrl(c)>>
                      /\ fetches' = [fetches EXCEPT ![c] = @ + 1]
                      /\ callsigns' = Append(callsigns, Requested(op'.spot.call))
                 ELSE /\ out'.fetch = <<>>
                      /\ fetches' = fetches
                      /\ callsigns' = callsigns
              /\ spots' = Append(spots, op'.spot)]_vars

\* A second spot of a Japanese callsign arrived after a United States one:
\* one lookup is out, the Japanese callsign has no entry and both its spots
\* are stored as they came.
C17_Witness ==
    /\ op.name = "add_spot"
    /\ op.spot.call.call = "JA1XYZ"
    /\ out.fetch = <<>>
    /\ Cardinality(SpotsOf("JA1XYZ")) = 2
    /\ \A k \in SpotsOf("JA1XYZ") : spots[k].call.info = 0
    /\ ~HasEntry(callsigns, "JA1XYZ", AllTags)
    /\ callsigns = <<Requested(Call("W1AW", 0))>>
    /\ fetches["W1AW"] = 1

\* C18: a lookup response with a non-success status queues Msg::None and
\* changes neither a spot nor the cache, and handling that Msg changes
\* nothing; a Requested entry for a callsign stays Requested, its spots stay
\* as they are and no lookup for it is started, in every step but the one
\* that applies a successful answer naming that callsign.
C18_FailedLookupChangesNothing ==
    [][/\ (op'.name = "fetch_callback" /\ ~op'.success)
          => /\ msgs' = Append(msgs, [type |-> "None"])
             /\ UNCHANGED <<spots, callsigns>>
       /\ (op'.name = "update" /\ op'.msg.type = "None")
          => UNCHANGED <<spots, callsigns, fetches>>
       /\ \A c \in Callsigns :
              (/\ HasEntry(callsigns, c, {"Requested"})
               /\ ~(CompletionApplied /\ op'.msg.data.call.call = c))
              => /\ HasEntry(callsigns', c, {"Requested"})
                 /\ out'.fetch # <<LookupUrl(c)>>
                 /\ fetches'[c] <= fetches[c]
                 /\ op'.name # "trim_spots"
                    => \A k \in 1..Len(spots) :
                           spots[k].call.call = c => spots'[k] = spots[k]]_vars

\* The failed response to the lookup of a callsign was handled: its entry
\* is Requested, no lookup for it is out, and its two spots are as they came.
C18_Witness ==
    /\ op.name = "update"
    /\ op.msg.type = "None"
    /\ msgs = <<>>
    /\ \E c \in Callsigns :
           /\ HasEntry(callsigns, c, {"Requested"})
           /\ fetches[c] = 0
           /\ Cardinality(SpotsOf(c)) = 2
           /\ \A k \in SpotsOf(c) : spots[k].call.info = 0

\* ------------------------------------------- claims about the imported log

\* No record of the import set has the country the spot's callsign resolves to.
CountryNotLogged(s) ==
    \A i \in 1..Len(import.value) :
        country(import.value[i].call.call) # country(s.call.call)

\* No record of the import set has the state the spot's call carries.
StateNotLogged(s) ==
    \A i \in 1..Len(import.value) : state(import.value[i].call) # state(s.call)

\* C19: with an import set, the row of a spot whose callsign resolves to a
\* country has the new-country class exactly when no imported record has
\* that country; with no import set no row has it.  (A spot whose callsign
\* resolves to no country shows no country and has no class.)
C19_NewCountry ==
    [][op'.name = "spot"
       => LET s == op'.spot
          IN  (op'.row.new_country = "new-country")
                  <=> (/\ import.some
                       /\ country(s.call.call) # ""
                       /\ CountryNotLogged(s))]_vars

\* With a Japanese contact imported and a Japanese spot stored, the row of
\* a German spot has the new-country class.
C19_Witness ==
    /\ op.name = "spot"
    /\ op.spot.call.call = "DL1ABC"
    /\ op.row.new_country = "new-country"
    /\ import.some
    /\ \E i \in 1..Len(import.value) : country(import.value[i].call.call) = "Japan"
    /\ \E k \in 1..Len(spots) : spots[k].call.call = "JA1XYZ"

\* C20: with an import set, the row of a spot has the new-state class
\* exactly when the spot's call carries a state and no imported record has
\* that state, whether or not its callsign resolves to a country.
C20_NewState ==
    [][op'.name = "spot"
       => LET s == op'.spot
          IN  (op'.row.state_class = "new-state")
                  <=> (/\ import.some
                       /\ state(s.call) # ""
                       /\ StateNotLogged(s))]_vars

\* The places of the records of a file that convert, and the k-th of them.
Converting(records) == {i \in 1..Len(records) : records[i].ok}

Kth(records, k) ==
    CHOOSE i \in Converting(records) :
        Cardinality({j \in Converting(records) : j <= i}) = k

\* C21: load_adif_data of a file that parses leaves for import set exactly
\* the entries of the records that convert, in the order of the file, and
\* nothing else; of a file that does not parse, the import set it found.
C21_ImportReplaced ==
    [][op'.name = "load_adif_data"
       => IF op'.data.ok
          THEN LET records == op'.data.records
               IN  /\ import'.some
                   /\ Len(import'.value) = Cardinality(Converting(records))
                   /\ \A k \in 1..Len(import'.value) :
                          import'.value[k] = records[Kth(records, k)].entry
          ELSE import' = import]_vars

\* A file of three records whose second does not convert was loaded: the
\* import set is the first and the third, and one failure was logged.
C21_Witness ==
    /\ op.name = "load_adif_data"
    /\ op.data.ok
    /\ Len(op.data.records) = 3
    /\ import = Some(<<LogEntry(Call("JA1XYZ", 0)), LogEntry(Call("W1AW", 2))>>)
    /\ Len(out.log) = 1

\* --------------------------------------------- claims about receiver calls

\* The step calls the operation on a receiver that is there.
CalledOnPresent(name) ==
    /\ op'.name = name
    /\ \E i \in 1..Len(receivers) : receivers[i].id = op'.id

\* C22: change_receiver_mode(id, mode) on a receiver that is there sets its
\* mode, changes nothing else of the receivers, and hands send_command
\* exactly one SetMode with the id and the mode; with no socket held the
\* command goes nowhere and the not-connected error is logged.
C22_ModeChange ==
    [][CalledOnPresent("change_receiver_mode")
       => /\ Len(receivers') = Len(receivers)
          /\ \A i \in 1..Len(receivers) :
                 receivers'[i] = IF i = Stepped
                                 THEN [receivers[i] EXCEPT !.mode = op'.mode]
                                 ELSE receivers[i]
          /\ out'.cmds = <<SetMode(op'.mode, op'.id)>>
          /\ wss = 0 => (out'.wire = <<>> /\ out'.log = NotConnected /\ ~panicked')
          /\ (wss # 0 /\ sockets[wss] = "open")
             => out'.wire = <<[socket |-> wss, frame |-> SetMode(op'.mode, op'.id)]>>]_vars

\* After a disconnect, the second of two receivers was switched from USB to
\* FT8: its mode is FT8, the first is as it was, the command was dropped.
C22_Witness ==
    /\ op = [name |-> "change_receiver_mode", id |-> 2, mode |-> "FT8"]
    /\ wss = 0
    /\ sockets # <<>>
    /\ receivers = <<Receiver(1, F32Of(16777216), "FT8"),
                     Receiver(2, F32Of(2100000000), "FT8")>>
    /\ out.cmds = <<SetMode("FT8", 2)>>
    /\ out.log = NotConnected
    /\ out.wire = <<>>

\* ------------------------------------------- claims about the cache entries

\* C23: every stored spot of a callsign the cache holds as Found(c) carries
\* the call c.
C23_SpotsCarryFoundCall ==
    \A i \in 1..Len(callsigns) :
        callsigns[i].tag = "Found"
        => \A k \in 1..Len(spots) :
               spots[k].call.call = callsigns[i].call.call
               => spots[k].call = callsigns[i].call

\* Three spots arrived, a trim dropped one, and a completion was applied for
\* a callsign with two spots left: both carry the found call.
C23_Witness ==
    /\ op.name = "update"
    /\ op.msg.type = "CallsignInfoReady"
    /\ op.msg.data.ok
    /\ clock = 3
    /\ Len(spots) = 2
    /\ \A k \in 1..2 : spots[k].call = op.msg.data.call
    /\ \E i \in 1..Len(callsigns) : callsigns[i] = Found(op.msg.data.call)

\* The tag of the cache entry of a callsign in the cache cs, or "absent".
EntryTag(cs, c) ==
    IF HasEntry(cs, c, AllTags)
    THEN cs[CHOOSE i \in 1..Len(cs) : cs[i].call.call = c].tag
    ELSE "absent"

\* C24: no cache entry is ever NotFound, and the entry of a callsign only
\* goes from absent to Requested, by add_spot, and from absent, Requested
\* or Found to Found, by a lookup completion.
C24_EntryTransitions ==
    /\ [](\A i \in 1..Len(callsigns) : callsigns[i].tag # "NotFound")
    /\ [][\A c \in Callsigns :
              LET before == EntryTag(callsigns, c)
                  after == EntryTag(callsigns', c)
              IN  \/ after = before
                  \/ before = "absent" /\ after = "Requested" /\ op'.name = "add_spot"
                  \/ before \in {"absent", "Requested"} /\ after = "Found"
                                                        /\ CompletionApplied]_vars

\* A completion was applied to a Requested entry while another callsign is
\* still Requested.
C24_Witness ==
    /\ op.name = "update"
    /\ op.msg.type = "CallsignInfoReady"
    /\ op.msg.data.ok
    /\ Len(callsigns) = 2
    /\ fetches[op.msg.data.call.call] = 0
    /\ EntryTag(callsigns, op.msg.data.call.call) = "Found"
    /\ \E c \in Callsigns : EntryTag(callsigns, c) = "Requested"

\* C25: no step removes a cache entry or takes one back from Found: the cache
\* does not shrink, a callsign that has an entry keeps one, and an entry
\* that is Found stays Found.
C25_EntriesStay ==
    [][/\ Len(callsigns') >= Len(callsigns)
       /\ \A c \in Callsigns :
              /\ EntryTag(callsigns, c) # "absent" => EntryTag(callsigns', c) # "absent"
              /\ EntryTag(callsigns, c) = "Found" => EntryTag(callsigns', c) = "Found"]_vars

\* After two connects and a disconnect, a log loaded and every spot trimmed
\* away, one callsign is still Found and the other still Requested.
C25_Witness ==
    /\ op.name = "disconnect"
    /\ Len(sockets) = 2
    /\ wss = 0
    /\ import.some
    /\ spots = <<>>
    /\ clock >= 2
    /\ EntryTag(callsigns, "W1AW") = "Found"
    /\ EntryTag(callsigns, "K7RA") = "Requested"

\* ------------------------------------------- claims about digits outside 0..8

\* The step is a frequency_up or frequency_down with a digit outside 0..8 on
\* a receiver that is there.
StillCalled ==
    /\ op'.name \in {"frequency_up", "frequency_down"}
    /\ op'.digit \notin 0..8
    /\ \E i \in 1..Len(receivers) : receivers[i].id = op'.id

\* Such a call leaves the receivers as they were and hands send_command one
\* SetFrequency with the receiver's id and `frequency as i32` written out.
StillCallSendsAsI32 ==
    [][StillCalled
       => /\ receivers' = receivers
          /\ out'.cmds = <<SetFrequency(FrequencyString(receivers[Stepped].frequency),
                                        op'.id)>>]_vars

\* C26: frequency_up / frequency_down with a digit outside 0..8 on a
\* receiver that is there leave its frequency unchanged and emit exactly one
\* SetFrequency command, with the receiver's id and the unchanged frequency.
C26_StillCallSendsFrequency ==
    [][StillCalled
       => /\ receivers'[Stepped].frequency = receivers[Stepped].frequency
          /\ out'.cmds = <<SetFrequency(Decimal(receivers[Stepped].frequency), op'.id)>>]_vars

\* ---------------------------------------------------- claims about is_connected

\* The step is the delivery of a socket's open, error or close event.
EventDelivered == op'.name \in {"onopen", "onerror", "onclose"}

\* The step runs disconnect(): called by itself, or by the handling of a
\* Disconnected message.
DisconnectRun ==
    \/ op'.name = "disconnect"
    \/ op'.name = "update" /\ op'.msg.type = "Disconnected"

\* C27: is_connected() is true exactly when self.wss holds a socket; it is
\* true when connect() returns, with the socket still connecting; the
\* delivery of an open, error or close event does not change it; and it goes
\* from true to false only where disconnect() runs.
C27_ConnectedWhileHeld ==
    /\ [](is_connected <=> wss # 0)
    /\ [][/\ (op'.name = "connect" /\ ~panicked')
             => (is_connected' /\ sockets'[wss'] = "connecting")
          /\ EventDelivered => (is_connected' <=> is_connected)
          /\ (is_connected /\ ~is_connected') => DisconnectRun]_vars

\* The socket the model holds has closed and its close event was delivered,
\* the Disconnected message is still waiting: is_connected() is true.
C27_Witness ==
    /\ op = [name |-> "onclose", socket |-> 1]
    /\ wss = 1
    /\ sockets = <<"closed">>
    /\ msgs # <<>>
    /\ is_connected

=============================================================================
